---------------------------- MODULE Spec2Model ----------------------------
(***************************************************************************)
(* The synchronisation daemon of src/bup.go: the client's start-up         *)
(* (startClient), its event loop (Client.run), the debounce goroutines     *)
(* (GitBackend.syncLater), the pipeline (GitBackend.Sync) and the push     *)
(* hook, as interleaved processes over the GitBackend's shared fields.     *)
(*                                                                         *)
(* Time is kept as the value the code computes from it,                    *)
(* time.Now().Sub(self.lastEvent), in whole seconds and saturated at       *)
(* SYNC_IDLE_SECS: the code only ever compares it with that constant.      *)
(***************************************************************************)
EXTENDS Integers, Sequences, FiniteSets, TLC

\* ------------------------------------------------------------ bounds
\* Debounce goroutines (go self.syncLater()) alive at the same time.
MaxTasks == 2
\* File-system events the environment produces in one behaviour.
MaxEvents == 2
\* Peer "changed" signals the listeners receive in one behaviour.
MaxSignals == 1
\* Entries of one category (created, modified, deleted) of a parsed status.
MaxEntries == 2
\* Daemons that share one remote repository and signal each other.
NPeers == 2

\* ------------------------------------------------------------ constants
SYNC_IDLE_SECS == 5

\* The goroutine of main()/startClient()/Client.run().
Main == 0
\* The goroutines started by "go self.syncLater()".
Tasks == 1..MaxTasks
Procs == {Main} \cup Tasks

\* Exit statuses of the external git command: success, the "nothing to do"
\* status, and another failure.
ExitCodes == {0, 1, 2}

\* File names, as the sequences of their characters.
PathFile == <<"a">>
PathGit == <<".", "g", "i", "t", "/", "x">>
Paths == {PathFile, PathGit}

\* The directories of the tree when the daemon starts: its root and the
\* repository's .git.
PathRoot == <<".">>
PathGitDir == <<".", "g", "i", "t">>
InitialDirs == {PathRoot, PathGitDir}

\* An inotify event: its Name and the IN_CREATE and IN_ISDIR bits of its Mask.
Event(path, create, dir) == [name |-> path, isCreate |-> create, isDir |-> dir]

\* File names of a status listing, and the lists status() returns.
FileNames == {<<"a">>, <<"b">>}
Lists == UNION {[1..n -> FileNames] : n \in 0..MaxEntries}

\* ds before displayStatus() has run, for the parsed lists c, m and d.
Parsed(c, m, d) ==
    [created |-> c, modified |-> m, deleted |-> d,
     msg |-> <<>>, informed |-> FALSE, shown |-> FALSE]
NoStatus == Parsed(<<>>, <<>>, <<>>)

\* The working tree, with or without changes that are not committed, and
\* what has happened to it: settled, a commit step has exited with 0 or 1 and
\* no file was changed since; quiet, a run has begun and no file was changed
\* since; again and repeat, what quiet and settled were when the latest run
\* began, if no file was changed since.
Repo(d) ==
    [dirty |-> d, settled |-> FALSE, quiet |-> FALSE,
     again |-> FALSE, repeat |-> FALSE]
NoRepo == Repo(FALSE)

\* The *GitError a git() call returns; NoError stands for nil.
NoError == [cmd |-> "none", status |-> 0]
GitError(c, s) == [cmd |-> c, status |-> s]

\* The daemons of a group of peers.
Peers == 1..NPeers

\* One daemon of the group: dirty, its tree has changes that are not
\* committed; behind, the remote has commits it has not merged; pushed, it
\* has pushed commits of its own; inbox, the signals that wait on its incoming
\* channel; pending, a debounce goroutine waits.
Peer(dirty, behind, pushed, inbox) ==
    [dirty |-> dirty, behind |-> behind, pushed |-> pushed, inbox |-> inbox,
     pending |-> FALSE]

\* The group: at, its daemons; runs, the number of Sync() runs they have
\* made; by and last, the daemon that made the latest run, 0 if none has,
\* and what that run returned.
Group(at) == [at |-> at, runs |-> 0, by |-> 0, last |-> NoError]
NoPeers == Group([d \in Peers |-> Peer(FALSE, FALSE, FALSE, 0)])

\* self.pushHook before RegisterPushHook: nil.
NoHook == "nil"
\* The closure Client.run registers.
NotifyHook == "notify"
\* Another callback, for callers that register one of their own.
OtherHook == "other"
HookIds == {NotifyHook, OtherHook}

VARIABLES
    pc,              \* each goroutine's position
    running,         \* Client.run() has been entered
    isSyncPending,   \* GitBackend.isSyncPending
    isSyncActive,    \* GitBackend.isSyncActive
    syncLock,        \* GitBackend.syncLock is held
    sinceLastEvent,  \* time.Now().Sub(self.lastEvent), saturated
    pushHook,        \* GitBackend.pushHook
    watchQ,          \* the event the watcher offers on self.watcher.Event
    incoming,        \* signals the listeners hold for <-self.incoming
    listening,       \* udpListen and tcpListen have been started
    hooks,           \* per callback: its goroutines started and not yet run
    udpSent,         \* "Updated\n" datagrams broadcast
    warned,          \* Warn() was called for the start-up sync
    cmds,            \* per caller: the commands its current Sync() has run
    syncRet,         \* per caller: what its last Sync() returned
    hookCalls,       \* per caller: hooks its current Sync() has started
    lastRegistered,  \* the callback of the latest RegisterPushHook call
    nEvents,         \* file-system events produced so far
    nSignals,        \* peer signals received so far
    unsynced,        \* an event was recorded and no Sync() began since
    burstOpen,       \* an event was recorded and no debounced Sync() began since
    watches,         \* the directories the watcher has a watch on
    ds,              \* displayStatus(): the parsed status and what it rendered
    repo,            \* the working tree and the history of the runs over it
    peers            \* per daemon of a group of peers: its tree, signals and runs

vars == <<pc, running, isSyncPending, isSyncActive, syncLock, sinceLastEvent,
          pushHook, lastRegistered, watchQ, incoming, listening, hooks,
          udpSent, warned, cmds, syncRet, hookCalls, nEvents, nSignals,
          unsynced, burstOpen, watches, ds, repo, peers>>

\* The daemon's own state.
daemonVars == <<pc, running, isSyncPending, isSyncActive, syncLock,
                sinceLastEvent, pushHook, lastRegistered, watchQ, incoming,
                listening, hooks, udpSent, warned, cmds, syncRet, hookCalls,
                nEvents, nSignals, unsynced, burstOpen, watches>>

\* State the daemon's steps leave alone.
aux == <<ds, repo, peers>>

\* ------------------------------------------------------------ helpers

\* strings.Contains(s, sub)
RECURSIVE HasPrefix(_, _)
HasPrefix(s, sub) ==
    IF sub = <<>> THEN TRUE
    ELSE IF s = <<>> THEN FALSE
    ELSE Head(s) = Head(sub) /\ HasPrefix(Tail(s), Tail(sub))

RECURSIVE Contains(_, _)
Contains(s, sub) ==
    IF HasPrefix(s, sub) THEN TRUE
    ELSE IF s = <<>> THEN FALSE
    ELSE Contains(Tail(s), sub)

\* GitBackend.isGit
isGit(filename) == Contains(filename, <<".", "g", "i", "t">>)

\* GitBackend.ShouldWatch
ShouldWatch(filename) == ~isGit(filename)

\* The commands Sync() issues through git(), in their order.
PipelineCmds == <<"fetch", "merge", "add", "commit", "push">>

\* The positions inside Sync() after "self.isSyncActive = true".
SyncPcs == {"fetch", "diff", "merge", "add", "status", "commit", "push"}

\* Where a caller continues when its Sync() returns.
AfterSync(p) ==
    IF p = Main THEN (IF running THEN "select" ELSE "warn") ELSE "clear"

Min(a, b) == IF a < b THEN a ELSE b

InitDaemon ==
    /\ pc = [p \in Procs |-> IF p = Main THEN "addWatches" ELSE "none"]
    /\ running = FALSE
    /\ isSyncPending = FALSE
    /\ isSyncActive = FALSE
    /\ syncLock = FALSE
    /\ sinceLastEvent = SYNC_IDLE_SECS
    /\ pushHook = NoHook
    /\ watchQ = <<>>
    /\ incoming = 0
    /\ listening = FALSE
    /\ hooks = [h \in HookIds |-> 0]
    /\ udpSent = 0
    /\ warned = FALSE
    /\ cmds = [p \in Procs |-> <<>>]
    /\ syncRet = [p \in Procs |-> NoError]
    /\ hookCalls = [p \in Procs |-> <<>>]
    /\ lastRegistered = NoHook
    /\ nEvents = 0
    /\ nSignals = 0
    /\ unsynced = FALSE
    /\ burstOpen = FALSE
    /\ watches = {}

Init == InitDaemon /\ ds = NoStatus /\ repo = NoRepo /\ peers = NoPeers


\* ------------------------------------------------------------ Sync()

\* One command of the current run, appended to the caller's record.
Ran(p, c, s) == [cmds EXCEPT ![p] = Append(@, GitError(c, s))]

\* Lines 326-327: Sync() is entered and sets isSyncActive.
Enter(p) ==
    /\ pc[p] = "Sync"
    /\ isSyncActive' = TRUE
    /\ pc' = [pc EXCEPT ![p] = "fetch"]
    /\ cmds' = [cmds EXCEPT ![p] = <<>>]
    /\ hookCalls' = [hookCalls EXCEPT ![p] = <<>>]
    /\ syncRet' = [syncRet EXCEPT ![p] = NoError]
    /\ unsynced' = FALSE
    /\ burstOpen' = IF p \in Tasks THEN FALSE ELSE burstOpen
    /\ UNCHANGED <<running, isSyncPending, syncLock, sinceLastEvent,
                   pushHook, lastRegistered, watchQ, incoming, listening,
                   hooks, udpSent, warned, nEvents, nSignals>>
    /\ UNCHANGED watches

SyncStart(p) == Enter(p) /\ UNCHANGED aux

\* A step of the pipeline that leaves everything but the caller's position,
\* its record and the active flag alone.
SyncFrame ==
    UNCHANGED <<running, isSyncPending, syncLock, sinceLastEvent, pushHook,
                lastRegistered, watchQ, incoming, listening, udpSent,
                warned, nEvents, nSignals, unsynced, burstOpen,
                watches>>

PipelineFrame == SyncFrame /\ UNCHANGED aux

\* The command c of caller p exits with s: on success the pipeline moves to
\* next; on failure Sync() clears isSyncActive and returns the error.
GitStep(p, c, s, next) ==
    /\ cmds' = Ran(p, c, s)
    /\ IF s = 0
       THEN /\ pc' = [pc EXCEPT ![p] = next]
            /\ UNCHANGED <<isSyncActive, syncRet>>
       ELSE /\ isSyncActive' = FALSE
            /\ syncRet' = [syncRet EXCEPT ![p] = GitError(c, s)]
            /\ pc' = [pc EXCEPT ![p] = AfterSync(p)]

\* pull(), lines 495-498: git fetch.
Fetch(p) ==
    /\ pc[p] = "fetch"
    /\ \E s \in ExitCodes : GitStep(p, "fetch", s, "diff")
    /\ UNCHANGED <<hooks, hookCalls>>
    /\ PipelineFrame

\* displayStatus(), lines 367-393 and status(), 406-452: a query whose exit
\* status the code only logs.
DisplayStatus(p, at, c, next) ==
    /\ pc[p] = at
    /\ cmds' = Ran(p, c, 0)
    /\ pc' = [pc EXCEPT ![p] = next]
    /\ UNCHANGED <<isSyncActive, syncRet, hooks, hookCalls>>
    /\ PipelineFrame

\* pull(), line 500: displayStatus("diff", "origin/master", "--name-status").
Diff(p) == DisplayStatus(p, "diff", "diff", "merge")

\* pull(), lines 501-502, and Sync(), lines 333-336: git merge origin/master.
Merge(p) ==
    /\ pc[p] = "merge"
    /\ \E s \in ExitCodes : GitStep(p, "merge", s, "add")
    /\ UNCHANGED <<hooks, hookCalls>>
    /\ PipelineFrame

\* Sync(), lines 338-342: git add --all.
Add(p) ==
    /\ pc[p] = "add"
    /\ \E s \in ExitCodes : GitStep(p, "add", s, "status")
    /\ UNCHANGED <<hooks, hookCalls>>
    /\ PipelineFrame

\* Sync(), line 344: displayStatus("status", "--porcelain").
Status(p) == DisplayStatus(p, "status", "status", "commit")

\* Commit(p) with the status 1 of "nothing to commit" taken for success.
CommitNoOpContinues(p) ==
    /\ pc[p] = "commit"
    /\ \E s \in ExitCodes :
         IF s = 1
         THEN /\ cmds' = Ran(p, "commit", s)
              /\ pc' = [pc EXCEPT ![p] = "push"]
              /\ UNCHANGED <<isSyncActive, syncRet>>
         ELSE GitStep(p, "commit", s, "push")
    /\ UNCHANGED <<hooks, hookCalls>>
    /\ PipelineFrame

\* CommitStep(p) with the status 1 of "nothing to commit" taken for success.
CommitStepNoOpContinues(p) ==
    /\ pc[p] = "commit"
    /\ \E s \in ExitCodes :
         IF s = 1
         THEN /\ cmds' = Ran(p, "commit", s)
              /\ pc' = [pc EXCEPT ![p] = "push"]
              /\ UNCHANGED <<isSyncActive, syncRet>>
         ELSE GitStep(p, "commit", s, "push")
    /\ UNCHANGED <<hooks, hookCalls>>
    /\ SyncFrame

\* Sync(), lines 346-353: git commit --all; any error, the status 1 of
\* "nothing to commit" included, is returned.
CommitStep(p) ==
    /\ pc[p] = "commit"
    /\ \E s \in ExitCodes : GitStep(p, "commit", s, "push")
    /\ UNCHANGED <<hooks, hookCalls>>
    /\ SyncFrame

Commit(p) == CommitStep(p) /\ UNCHANGED aux

\* Push(p) that starts the hook whatever git push exited with.
PushHookOnAnyExit(p) ==
    /\ pc[p] = "push"
    /\ \E s \in ExitCodes :
         /\ cmds' = Ran(p, "push", s)
         /\ syncRet' = [syncRet EXCEPT ![p] =
                          IF s = 0 THEN NoError ELSE GitError("push", s)]
         /\ IF pushHook # NoHook
            THEN /\ hooks' = [hooks EXCEPT ![pushHook] = @ + 1]
                 /\ hookCalls' = [hookCalls EXCEPT ![p] = Append(@,
                                    [hook |-> pushHook, last |-> lastRegistered])]
            ELSE UNCHANGED <<hooks, hookCalls>>
    /\ isSyncActive' = FALSE
    /\ pc' = [pc EXCEPT ![p] = AfterSync(p)]
    /\ PipelineFrame

\* Push(p) that calls the hook itself, "self.pushHook()", and so waits for a
\* hook that does not return.
PushAwaitsHook(p) ==
    /\ pc[p] = "push"
    /\ \E s \in ExitCodes :
         /\ cmds' = Ran(p, "push", s)
         /\ IF s = 0 /\ pushHook # NoHook
            THEN /\ hooks' = [hooks EXCEPT ![pushHook] = @ + 1]
                 /\ hookCalls' = [hookCalls EXCEPT ![p] = Append(@,
                                    [hook |-> pushHook, last |-> lastRegistered])]
                 /\ pc' = [pc EXCEPT ![p] = "hook"]
                 /\ UNCHANGED <<isSyncActive, syncRet>>
            ELSE /\ syncRet' = [syncRet EXCEPT ![p] =
                          IF s = 0 THEN NoError ELSE GitError("push", s)]
                 /\ isSyncActive' = FALSE
                 /\ pc' = [pc EXCEPT ![p] = AfterSync(p)]
                 /\ UNCHANGED <<hooks, hookCalls>>
    /\ PipelineFrame

\* push(), lines 482-488, and Sync(), lines 355-363: git push; on success
\* the hook, when one is set, is started as a goroutine.
Push(p) ==
    /\ pc[p] = "push"
    /\ \E s \in ExitCodes :
         /\ cmds' = Ran(p, "push", s)
         /\ syncRet' = [syncRet EXCEPT ![p] =
                          IF s = 0 THEN NoError ELSE GitError("push", s)]
         /\ IF s = 0 /\ pushHook # NoHook
            THEN /\ hooks' = [hooks EXCEPT ![pushHook] = @ + 1]
                 /\ hookCalls' = [hookCalls EXCEPT ![p] = Append(@,
                                    [hook |-> pushHook, last |-> lastRegistered])]
            ELSE UNCHANGED <<hooks, hookCalls>>
    /\ isSyncActive' = FALSE
    /\ pc' = [pc EXCEPT ![p] = AfterSync(p)]
    /\ PipelineFrame

\* A push hook goroutine runs. The closure of Client.run, lines 150-156:
\* udpSend broadcasts "Updated\n". (The tcpSend on comms.go's remoteConn, a
\* file that is not part of the source, is left out.)
HookRun(h) ==
    /\ hooks[h] > 0
    /\ hooks' = [hooks EXCEPT ![h] = @ - 1]
    /\ udpSent' = IF h = NotifyHook THEN udpSent + 1 ELSE udpSent
    /\ UNCHANGED <<pc, running, isSyncPending, isSyncActive, syncLock,
                   sinceLastEvent, pushHook, lastRegistered, watchQ, incoming,
                   listening, warned, cmds, syncRet, hookCalls, nEvents,
                   nSignals, unsynced, burstOpen>>
    /\ UNCHANGED <<watches, aux>>

\* ------------------------------------------------------------ displayStatus()

\* strconv.Itoa, for a number that is not negative.
Digits == <<"0", "1", "2", "3", "4", "5", "6", "7", "8", "9">>
RECURSIVE Itoa(_)
Itoa(n) ==
    IF n < 10 THEN <<Digits[n + 1]>>
    ELSE Itoa(n \div 10) \o <<Digits[(n % 10) + 1]>>

\* Lines 371-375, 377-381 and 383-387: what one category adds to msg, the
\* string written before its file name or count being prefix.
Category(prefix, names) ==
    IF Len(names) = 1 THEN prefix \o names[1]
    ELSE IF Len(names) > 1 THEN prefix \o Itoa(Len(names))
    ELSE <<>>

\* displayStatus(), lines 370-388: msg, as the sequence of its characters.
displayStatus(created, modified, deleted) ==
    Category(<<"N", "e", "w", ":", " ">>, created)
      \o Category(<<" ", "E", "d", "i", "t", ":", " ">>, modified)
      \o Category(<<" ", "D", "e", "l", ":", " ">>, deleted)

\* displayStatus(), lines 367-393, on the lists status() has returned:
\* Info(msg) is called if msg is not empty.
ShowStatus ==
    /\ ~ds.shown
    /\ LET msg == displayStatus(ds.created, ds.modified, ds.deleted) IN
         ds' = [ds EXCEPT !.msg = msg, !.informed = (Len(msg) # 0),
                          !.shown = TRUE]
    /\ UNCHANGED <<daemonVars, repo, peers>>

\* ------------------------------------------------------------ startClient()

\* Client.addWatches, lines 187-201: the walk calls AddWatch for every
\* directory of the tree that ShouldWatch() accepts and returns nil whatever
\* AddWatch returned; then line 120 calls backend.Sync(). Here every AddWatch
\* succeeds.
AddWatches ==
    /\ pc[Main] = "addWatches"
    /\ watches' = {d \in InitialDirs : ShouldWatch(d)}
    /\ pc' = [pc EXCEPT ![Main] = "Sync"]
    /\ UNCHANGED <<running, isSyncPending, isSyncActive, syncLock,
                   sinceLastEvent, pushHook, lastRegistered, watchQ,
                   incoming, listening, hooks, udpSent, warned, cmds,
                   syncRet, hookCalls, nEvents, nSignals, unsynced,
                   burstOpen>>
    /\ UNCHANGED aux

\* Client.addWatches when AddWatch returns an error for the directories
\* failed: addSingleWatch drops the error and returns nil, so that
\* filepath.Walk returns nil, logger.Fatal of line 199 is not reached and
\* startClient goes on to line 120.
AddWatchesFailed ==
    /\ pc[Main] = "addWatches"
    /\ \E failed \in SUBSET {d \in InitialDirs : ShouldWatch(d)} :
         /\ failed # {}
         /\ watches' = {d \in InitialDirs : ShouldWatch(d)} \ failed
    /\ pc' = [pc EXCEPT ![Main] = "Sync"]
    /\ UNCHANGED <<running, isSyncPending, isSyncActive, syncLock,
                   sinceLastEvent, pushHook, lastRegistered, watchQ,
                   incoming, listening, hooks, udpSent, warned, cmds,
                   syncRet, hookCalls, nEvents, nSignals, unsynced,
                   burstOpen>>
    /\ UNCHANGED aux

\* Line 121: the condition under which the start-up sync's result is a warning.
IsWarning(err) == err # NoError /\ err.status # 1

\* Lines 120-123: the start-up Sync() has returned err.
WarnStartup ==
    /\ pc[Main] = "warn"
    /\ warned' = IsWarning(syncRet[Main])
    /\ pc' = [pc EXCEPT ![Main] = "listen"]
    /\ UNCHANGED <<running, isSyncPending, isSyncActive, syncLock,
                   sinceLastEvent, pushHook, lastRegistered, watchQ,
                   incoming, listening, hooks, udpSent, cmds, syncRet,
                   hookCalls, nEvents, nSignals, unsynced, burstOpen>>
    /\ UNCHANGED <<watches, aux>>

\* Lines 125-126: go udpListen(...); go tcpListen(...).
Listen ==
    /\ pc[Main] = "listen"
    /\ listening' = TRUE
    /\ pc' = [pc EXCEPT ![Main] = "register"]
    /\ UNCHANGED <<running, isSyncPending, isSyncActive, syncLock,
                   sinceLastEvent, pushHook, lastRegistered, watchQ,
                   incoming, hooks, udpSent, warned, cmds, syncRet,
                   hookCalls, nEvents, nSignals, unsynced, burstOpen>>
    /\ UNCHANGED <<watches, aux>>

\* GitBackend.RegisterPushHook, lines 396-398.
RegisterPushHook(callback) ==
    /\ pushHook' = callback
    /\ lastRegistered' = callback

\* Lines 127 and 147-156: client.run() registers the push hook and enters the
\* loop. The record of the start-up run, which nothing reads any more, is
\* dropped here.
Register ==
    /\ pc[Main] = "register"
    /\ RegisterPushHook(NotifyHook)
    /\ running' = TRUE
    /\ pc' = [pc EXCEPT ![Main] = "select"]
    /\ cmds' = [cmds EXCEPT ![Main] = <<>>]
    /\ syncRet' = [syncRet EXCEPT ![Main] = NoError]
    /\ hookCalls' = [hookCalls EXCEPT ![Main] = <<>>]
    /\ UNCHANGED <<isSyncPending, isSyncActive, syncLock, sinceLastEvent,
                   watchQ, incoming, listening, hooks, udpSent, warned,
                   nEvents, nSignals, unsynced, burstOpen>>
    /\ UNCHANGED <<watches, aux>>

\* ------------------------------------------------------------ Client.run()

\* The goroutine slot "go self.syncLater()" starts next.
FreeTask ==
    CHOOSE t \in Tasks : pc[t] = "none" /\ \A u \in Tasks : u < t => pc[u] # "none"

\* Filtered(filename) without the test of isSyncActive.
FilteredGitOnly(filename) == isGit(filename)

\* GitBackend.Changed, line 316: the event is dropped.
Filtered(filename) == isGit(filename) \/ isSyncActive

\* GitBackend.Changed, lines 315-321.
Changed(filename) ==
    IF Filtered(filename)
    THEN UNCHANGED <<pc, sinceLastEvent, unsynced, burstOpen>>
    ELSE /\ \E t \in Tasks : pc[t] = "none"
         /\ sinceLastEvent' = 0
         /\ pc' = [pc EXCEPT ![FreeTask] = "lock"]
         /\ unsynced' = TRUE
         /\ burstOpen' = TRUE

\* WatchEvent that registers a watch for every event of a directory, a
\* creation or not.
WatchEventAnyDir ==
    /\ pc[Main] = "select"
    /\ watchQ # <<>>
    /\ watchQ' = Tail(watchQ)
    /\ LET ev == Head(watchQ) IN
         /\ watches' = IF ev.isDir /\ ShouldWatch(ev.name)
                       THEN watches \cup {ev.name} ELSE watches
         /\ Changed(ev.name)
    /\ UNCHANGED <<running, isSyncPending, isSyncActive, syncLock,
                   pushHook, lastRegistered, incoming, listening, hooks,
                   udpSent, warned, cmds, syncRet, hookCalls, nEvents,
                   nSignals>>
    /\ UNCHANGED aux

\* Lines 160-173: one watch event is taken; a created directory that
\* ShouldWatch() accepts gets a watch (the error of AddWatch is dropped), and
\* the event's name is handed to Changed().
WatchEvent ==
    /\ pc[Main] = "select"
    /\ watchQ # <<>>
    /\ watchQ' = Tail(watchQ)
    /\ LET ev == Head(watchQ) IN
         /\ watches' = IF ev.isCreate /\ ev.isDir /\ ShouldWatch(ev.name)
                       THEN watches \cup {ev.name} ELSE watches
         /\ Changed(ev.name)
    /\ UNCHANGED <<running, isSyncPending, isSyncActive, syncLock,
                   pushHook, lastRegistered, incoming, listening, hooks,
                   udpSent, warned, cmds, syncRet, hookCalls, nEvents,
                   nSignals>>
    /\ UNCHANGED aux

\* RecvIncoming that hands the peer signal to the debouncer, as Changed() does
\* with an event.
RecvIncomingDebounced ==
    /\ pc[Main] = "select"
    /\ incoming > 0
    /\ incoming' = incoming - 1
    /\ Changed(PathFile)
    /\ UNCHANGED <<running, isSyncPending, isSyncActive, syncLock, pushHook,
                   lastRegistered, watchQ, listening, hooks, udpSent, warned,
                   cmds, syncRet, hookCalls, nEvents, nSignals>>
    /\ UNCHANGED <<watches, aux>>

\* Lines 178-180: a peer signal is taken and Sync() is called.
RecvIncoming ==
    /\ pc[Main] = "select"
    /\ incoming > 0
    /\ incoming' = incoming - 1
    /\ pc' = [pc EXCEPT ![Main] = "Sync"]
    /\ UNCHANGED <<running, isSyncPending, isSyncActive, syncLock,
                   sinceLastEvent, pushHook, lastRegistered, watchQ,
                   listening, hooks, udpSent, warned, cmds, syncRet,
                   hookCalls, nEvents, nSignals, unsynced, burstOpen>>
    /\ UNCHANGED <<watches, aux>>

\* ------------------------------------------------------------ syncLater()

TaskFrame ==
    UNCHANGED <<running, isSyncActive, sinceLastEvent, pushHook,
                lastRegistered, watchQ, incoming, listening, hooks,
                udpSent, warned, cmds, syncRet, hookCalls, nEvents,
                nSignals, unsynced, burstOpen,
                watches, aux>>

\* Lock(t) without the mutual exclusion of the mutex.
LockWithoutExclusion(t) ==
    /\ pc[t] = "lock"
    /\ syncLock' = TRUE
    /\ pc' = [pc EXCEPT ![t] = "test"]
    /\ UNCHANGED isSyncPending
    /\ TaskFrame

\* Line 463: self.syncLock.Lock().
Lock(t) ==
    /\ pc[t] = "lock"
    /\ ~syncLock
    /\ syncLock' = TRUE
    /\ pc' = [pc EXCEPT ![t] = "test"]
    /\ UNCHANGED isSyncPending
    /\ TaskFrame

\* Lines 464-467: if self.isSyncPending { Unlock(); return }.
TestPending(t) ==
    /\ pc[t] = "test"
    /\ IF isSyncPending
       THEN /\ syncLock' = FALSE
            /\ pc' = [pc EXCEPT ![t] = "none"]
       ELSE /\ pc' = [pc EXCEPT ![t] = "set"]
            /\ UNCHANGED syncLock
    /\ UNCHANGED isSyncPending
    /\ TaskFrame

\* Lines 468-469: self.isSyncPending = true; Unlock().
SetPending(t) ==
    /\ pc[t] = "set"
    /\ isSyncPending' = TRUE
    /\ syncLock' = FALSE
    /\ pc' = [pc EXCEPT ![t] = "wait"]
    /\ TaskFrame

\* CheckIdle(t) that gives its run up when another Sync() is active at the
\* end of the idle window.
CheckIdleYields(t) ==
    /\ pc[t] = "wait"
    /\ pc' = [pc EXCEPT ![t] =
                IF sinceLastEvent < SYNC_IDLE_SECS THEN "sleep"
                ELSE IF isSyncActive THEN "clear" ELSE "Sync"]
    /\ UNCHANGED <<isSyncPending, syncLock>>
    /\ TaskFrame

\* Line 471: the loop condition time.Now().Sub(self.lastEvent) < 5 s, then
\* line 472 (sleep) or lines 475-476 (call Sync()).
CheckIdle(t) ==
    /\ pc[t] = "wait"
    /\ pc' = [pc EXCEPT ![t] =
                IF sinceLastEvent < SYNC_IDLE_SECS THEN "sleep" ELSE "Sync"]
    /\ UNCHANGED <<isSyncPending, syncLock>>
    /\ TaskFrame

\* Line 478: self.isSyncPending = false, and the goroutine ends.
ClearPending(t) ==
    /\ pc[t] = "clear"
    /\ isSyncPending' = FALSE
    /\ pc' = [pc EXCEPT ![t] = "none"]
    /\ cmds' = [cmds EXCEPT ![t] = <<>>]
    /\ syncRet' = [syncRet EXCEPT ![t] = NoError]
    /\ hookCalls' = [hookCalls EXCEPT ![t] = <<>>]
    /\ UNCHANGED <<running, isSyncActive, syncLock, sinceLastEvent,
                   pushHook, lastRegistered, watchQ, incoming, listening,
                   hooks, udpSent, warned, nEvents, nSignals, unsynced,
                   burstOpen>>
    /\ UNCHANGED <<watches, aux>>

\* ------------------------------------------------------------ environment

\* One second passes: the time since the last event grows, and the
\* time.Sleep(time.Second) of line 472 ends.
Tick ==
    /\ sinceLastEvent' = Min(sinceLastEvent + 1, SYNC_IDLE_SECS)
    /\ pc' = [p \in Procs |-> IF pc[p] = "sleep" THEN "wait" ELSE pc[p]]
    /\ UNCHANGED <<running, isSyncPending, isSyncActive, syncLock,
                   pushHook, lastRegistered, watchQ, incoming, listening,
                   hooks, udpSent, warned, cmds, syncRet, hookCalls,
                   nEvents, nSignals, unsynced, burstOpen>>
    /\ UNCHANGED <<watches, aux>>

\* The watcher reports a change in a watched directory and offers it on its
\* unbuffered Event channel.
Offer(path, create, dir) ==
    /\ watches # {}
    /\ nEvents < MaxEvents
    /\ watchQ = <<>>
    /\ watchQ' = Append(watchQ, Event(path, create, dir))
    /\ nEvents' = nEvents + 1
    /\ UNCHANGED <<pc, running, isSyncPending, isSyncActive, syncLock,
                   sinceLastEvent, pushHook, lastRegistered, incoming,
                   listening, hooks, udpSent, warned, cmds, syncRet,
                   hookCalls, nSignals, unsynced, burstOpen>>
    /\ UNCHANGED watches

WatcherEvent(path, create, dir) == Offer(path, create, dir) /\ UNCHANGED aux

\* The event of a change to the content of the file path.
FsEvent(path) == WatcherEvent(path, FALSE, FALSE)

\* The git merge of caller p's run writes a file of the watched tree, and the
\* watcher reports it.
OwnWrite(p) ==
    /\ pc[p] = "merge"
    /\ WatcherEvent(PathFile, FALSE, FALSE)

\* The first change a user makes to a file of the tree.
FirstEvent == nEvents = 0 /\ FsEvent(PathFile)

\* A listener has received a peer's "Updated\n" and offers it on the
\* incoming channel.
PeerSignal ==
    /\ listening
    /\ nSignals < MaxSignals
    /\ incoming' = incoming + 1
    /\ nSignals' = nSignals + 1
    /\ UNCHANGED <<pc, running, isSyncPending, isSyncActive, syncLock,
                   sinceLastEvent, pushHook, lastRegistered, watchQ,
                   listening, hooks, udpSent, warned, cmds, syncRet,
                   hookCalls, nEvents, unsynced, burstOpen>>
    /\ UNCHANGED <<watches, aux>>

\* A user of the Backend interface calls RegisterPushHook again, from the
\* event loop's goroutine (the daemon itself registers once, in Register).
\* Each call counts as one of the behaviour's MaxEvents inputs.
ReRegister(callback) ==
    /\ pc[Main] = "select"
    /\ nEvents < MaxEvents
    /\ nEvents' = nEvents + 1
    /\ RegisterPushHook(callback)
    /\ UNCHANGED <<pc, running, isSyncPending, isSyncActive, syncLock,
                   sinceLastEvent, watchQ, incoming, listening, hooks,
                   udpSent, warned, cmds, syncRet, hookCalls, nSignals,
                   unsynced, burstOpen>>
    /\ UNCHANGED <<watches, aux>>

\* ------------------------------------------------------------ the repository

\* Sync() is entered over the modelled working tree.
EnterRepo(p) ==
    /\ Enter(p)
    /\ repo' = [repo EXCEPT !.again = repo.quiet, !.repeat = repo.settled,
                            !.quiet = TRUE]
    /\ UNCHANGED <<ds, peers>>

\* The commit step over the modelled working tree. git commit exits with 0
\* only if there is something to commit and with 1 only if there is nothing
\* (the comments of lines 348-349 and 530); its commit leaves the tree clean.
CommitRepo(p) ==
    /\ CommitStep(p)
    /\ LET s == cmds'[p][Len(cmds'[p])].status IN
         /\ s = 0 => repo.dirty
         /\ s = 1 => ~repo.dirty
         /\ repo' = [repo EXCEPT !.dirty = (repo.dirty /\ s # 0),
                                 !.settled = (repo.settled \/ s \in {0, 1})]
    /\ UNCHANGED <<ds, peers>>

\* A user changes the content of a file of the tree, and the watcher reports
\* it.
LocalEdit ==
    /\ Offer(PathFile, FALSE, FALSE)
    /\ repo' = Repo(TRUE)
    /\ UNCHANGED <<ds, peers>>

\* ------------------------------------------------------------ peers

\* The exit statuses git has for the commands of one run: Sync() returns at
\* the first command that fails, and a command it does not run has none (0).
Exits ==
    {exit \in [{PipelineCmds[i] : i \in 1..Len(PipelineCmds)} -> ExitCodes] :
       Cardinality({i \in 1..Len(PipelineCmds) : exit[PipelineCmds[i]] # 0}) <= 1}

\* The place in the pipeline of the first command that fails, 0 if none does.
FirstFailure(exit) ==
    LET F == {i \in 1..Len(PipelineCmds) : exit[PipelineCmds[i]] # 0} IN
    IF F = {} THEN 0 ELSE CHOOSE i \in F : \A j \in F : i <= j

\* SyncReturn(exit) with the status 1 of the commit step taken for success.
SyncReturnNoOpContinues(exit) ==
    LET F == {i \in 1..Len(PipelineCmds) :
                /\ exit[PipelineCmds[i]] # 0
                /\ ~(PipelineCmds[i] = "commit" /\ exit["commit"] = 1)} IN
    IF F = {} THEN NoError
    ELSE LET i == CHOOSE i \in F : \A j \in F : i <= j IN
         GitError(PipelineCmds[i], exit[PipelineCmds[i]])

\* Sync(), lines 324-364: what the run returns, the error of the first
\* command that fails or nil.
SyncReturn(exit) ==
    IF FirstFailure(exit) = 0 THEN NoError
    ELSE GitError(PipelineCmds[FirstFailure(exit)],
                  exit[PipelineCmds[FirstFailure(exit)]])

\* The run gets as far as its commit step; its commit step makes a commit;
\* its merge brings the remote's commits into the tree.
ReachesCommit(exit) == exit["fetch"] = 0 /\ exit["merge"] = 0 /\ exit["add"] = 0
Commits(exit) == ReachesCommit(exit) /\ exit["commit"] = 0
Merges(exit) == exit["fetch"] = 0 /\ exit["merge"] = 0

\* One run of Sync() at daemon d, of the event loop for a peer's signal
\* (lines 178-180) or of a debounce goroutine (lines 475-476). git commit
\* exits with 0 only if there is something to commit and with 1 only if
\* there is nothing. A run that returns nil has pushed and started the hook
\* of lines 150-156, whose signal the listeners of rcv receive. The merge of
\* new commits writes files of the watched tree; Changed() records their
\* events, own = TRUE, or drops them.
Run(d, trigger) ==
    \E exit \in Exits :
    \E rcv \in IF SyncReturn(exit) = NoError
                THEN SUBSET (Peers \ {d}) ELSE {{}} :
    \E own \in IF peers.at[d].behind /\ Merges(exit)
                THEN BOOLEAN ELSE {FALSE} :
      LET me == peers.at[d]
          pushes == SyncReturn(exit) = NoError IN
      /\ ReachesCommit(exit) =>
           /\ exit["commit"] = 0 => me.dirty
           /\ exit["commit"] = 1 => ~me.dirty
      /\ peers' =
           [at |->
              [e \in Peers |->
                 IF e = d
                 THEN [dirty |-> me.dirty /\ ~Commits(exit),
                       behind |-> me.behind /\ ~Merges(exit),
                       pushed |-> me.pushed \/ pushes,
                       inbox |-> IF trigger = "signal"
                                 THEN me.inbox - 1 ELSE me.inbox,
                       pending |->
                         \/ me.pending /\ trigger # "debounce"
                         \/ me.behind /\ Merges(exit) /\ own]
                 ELSE IF pushes
                 THEN [peers.at[e] EXCEPT
                         !.behind = TRUE,
                         !.inbox = IF e \in rcv THEN @ + 1 ELSE @]
                 ELSE peers.at[e]],
            runs |-> peers.runs + 1,
            by |-> d,
            last |-> SyncReturn(exit)]
      /\ UNCHANGED <<daemonVars, ds, repo>>

\* Lines 178-180: the event loop of daemon d takes a signal and calls Sync().
PeerSync(d) == peers.at[d].inbox > 0 /\ Run(d, "signal")

\* Lines 475-476: the debounce goroutine of daemon d calls Sync().
DebouncedSync(d) == peers.at[d].pending /\ Run(d, "debounce")

\* Daemon a has pushed and signalled its peers; its tree is clean, those of
\* the daemons of D have changes that are not committed.
InitPeers ==
    /\ InitDaemon
    /\ ds = NoStatus
    /\ repo = NoRepo
    /\ \E a \in Peers, D \in SUBSET Peers :
         /\ a \notin D
         /\ peers = Group([d \in Peers |->
                             IF d = a THEN Peer(FALSE, FALSE, TRUE, 0)
                             ELSE Peer(d \in D, TRUE, FALSE, 1)])

\* The peers with no change of a file by a user.
NextPeers ==
    \/ \E d \in Peers : PeerSync(d)
    \/ \E d \in Peers : DebouncedSync(d)

SpecPeers == InitPeers /\ [][NextPeers]_vars

\* ------------------------------------------------------------ specification

\* The steps of the daemon's goroutines and the passing of time, but for the
\* entry of Sync() and its commit step.
Steps ==
    \/ AddWatches
    \/ WarnStartup
    \/ Listen
    \/ Register
    \/ WatchEvent
    \/ \E p \in Procs : Fetch(p)
    \/ \E p \in Procs : Diff(p)
    \/ \E p \in Procs : Merge(p)
    \/ \E p \in Procs : Add(p)
    \/ \E p \in Procs : Status(p)
    \/ \E p \in Procs : Push(p)
    \/ \E h \in HookIds : HookRun(h)
    \/ \E t \in Tasks : Lock(t)
    \/ \E t \in Tasks : TestPending(t)
    \/ \E t \in Tasks : SetPending(t)
    \/ \E t \in Tasks : CheckIdle(t)
    \/ \E t \in Tasks : ClearPending(t)
    \/ Tick

\* The steps of the daemon's goroutines and the passing of time.
Local ==
    \/ Steps
    \/ \E p \in Procs : SyncStart(p)
    \/ \E p \in Procs : Commit(p)

\* The daemon with peers that signal their pushes.
Daemon == Local \/ RecvIncoming \/ PeerSignal

\* The daemon and a user who changes files of the tree.
Next == Daemon \/ \E path \in Paths : FsEvent(path)

Spec == Init /\ [][Next]_vars

\* The daemon with a user that registers push hooks of its own.
NextHooks == Next \/ \E h \in HookIds : ReRegister(h)

SpecHooks == Init /\ [][NextHooks]_vars

\* The daemon when nobody changes a file of the tree but its own git merge.
NextOwn == Daemon \/ \E p \in Procs : OwnWrite(p)

SpecOwn == Init /\ [][NextOwn]_vars

\* The daemon without peers and a user who changes, creates and deletes
\* files and directories of the tree.
NextWatch ==
    Local \/ \E path \in Paths, create, dir \in BOOLEAN :
                WatcherEvent(path, create, dir)

SpecWatch == Init /\ [][NextWatch]_vars

\* The daemon with peers and a user who changes one file once.
NextPeer == Daemon \/ FirstEvent

SpecPeer == Init /\ [][NextPeer]_vars

\* The daemon without peers over a working tree that starts clean or with
\* changes, and a user who changes files; the other events the watcher
\* reports (FsEvent) change nothing git would commit.
InitRepo ==
    /\ InitDaemon
    /\ ds = NoStatus
    /\ repo \in {Repo(d) : d \in BOOLEAN}
    /\ peers = NoPeers

NextRepo ==
    \/ Steps
    \/ \E p \in Procs : EnterRepo(p)
    \/ \E p \in Procs : CommitRepo(p)
    \/ \E path \in Paths : FsEvent(path)
    \/ LocalEdit

SpecRepo == InitRepo /\ [][NextRepo]_vars

\* The daemon when the watcher refuses a watch during the initial walk.
NextWalk == Next \/ AddWatchesFailed

SpecWalk == Init /\ [][NextWalk]_vars

\* displayStatus() on every parsed status of up to MaxEntries names a
\* category.
InitStatus ==
    /\ InitDaemon
    /\ ds \in {Parsed(c, m, d) : c \in Lists, m \in Lists, d \in Lists}
    /\ repo = NoRepo
    /\ peers = NoPeers

SpecStatus == InitStatus /\ [][ShowStatus]_vars

\* ------------------------------------------------------------ claims

\* The callers whose Sync() is between "isSyncActive = true" and its return.
InSync == {p \in Procs : pc[p] \in SyncPcs}

\* Nothing is left that could start a pipeline run: no debounce goroutine
\* exists, the event loop waits in its select and no event or signal waits.
Quiescent ==
    /\ pc[Main] = "select"
    /\ \A t \in Tasks : pc[t] = "none"
    /\ watchQ = <<>>
    /\ incoming = 0

\* C1: in every reachable state at most one call of Sync() is in progress.
C1_OneSyncAtATime == Cardinality(InSync) <= 1

\* C2: every recorded event is followed by a pipeline run that begins after
\* it was recorded: when nothing is left that could start a run, no recorded
\* event is still without one.
C2_NoLostEvent == Quiescent => ~unsynced

\* A debounce goroutine enters its pipeline run in this step.
DebouncedRunBegins == \E t \in Tasks : pc[t] = "Sync" /\ pc'[t] = "fetch"

\* C3: a burst of recorded events triggers exactly one debounced run, which
\* begins no earlier than the idle window after the burst's last event: a
\* debounced run begins only for a burst that has had none yet and only when
\* the last event is at least SYNC_IDLE_SECS old, and no burst is left
\* without its run once nothing is left that could start one.
C3_OneRunPerBurst ==
    /\ [][DebouncedRunBegins =>
            burstOpen /\ sinceLastEvent >= SYNC_IDLE_SECS]_vars
    /\ [](Quiescent => ~burstOpen)

\* The debounce goroutines past the guard of lines 463-469.
PastGuard ==
    {t \in Tasks : pc[t] \in {"set", "wait", "sleep", "Sync", "clear"} \cup SyncPcs}

\* C4: at most one debounce goroutine is past the pending guard, and while
\* one waits or runs its pipeline isSyncPending is true.
C4_OnePendingTask ==
    /\ Cardinality(PastGuard) <= 1
    /\ \A t \in PastGuard : pc[t] # "set" => isSyncPending

\* A goroutine of a further Changed() call reads the flag while another
\* sleeps in its wait loop.
C4_Witness ==
    \E t, u \in Tasks : pc[t] = "sleep" /\ pc[u] = "test" /\ isSyncPending

\* C5: isSyncActive is true exactly while some Sync() call is between its
\* entry and its return.
C5_ActiveWhileSyncing == isSyncActive <=> InSync # {}

\* The commands of caller p's run that Sync() issues through git().
GitCmds(p) ==
    SelectSeq(cmds[p], LAMBDA e : e.cmd \in {"fetch", "merge", "add", "commit", "push"})

\* The run's commands are a prefix of the pipeline, each but the last with
\* exit status 0.
InOrder(p) ==
    LET g == GitCmds(p) IN
    /\ Len(g) <= Len(PipelineCmds)
    /\ \A i \in 1..Len(g) :
         /\ g[i].cmd = PipelineCmds[i]
         /\ i < Len(g) => g[i].status = 0

\* The order and the stop at the first failure alone.
C6_OrderOnly == \A p \in Procs : InOrder(p)

\* C6: every run issues fetch, merge, add, commit, push in this order and
\* stops at the first command that fails, and a recorded watch event leads to
\* such a run.
C6_PipelineOrder ==
    /\ \A p \in Procs : InOrder(p)
    /\ Quiescent => ~unsynced

\* How a caller reads what Sync() returned (line 121 and the comments of
\* lines 348-349 and 530).
Outcome(err) ==
    IF err = NoError THEN "Success"
    ELSE IF err.status = 1 THEN "NoOpCommit"
    ELSE "Failure"

\* The run caller p's record is of has ended; the last command it ran.
Ended(p) == pc[p] \notin SyncPcs /\ cmds[p] # <<>>
EndedWith(p) == cmds[p][Len(cmds[p])]

\* C7: a commit that exits with 1 ends the run as NoOpCommit with no push; a
\* commit that exits with another nonzero status ends it as a failure.
C7_NoOpCommit ==
    \A p \in Procs :
      /\ \A i \in 1..Len(cmds[p]) :
           (cmds[p][i].cmd = "commit" /\ cmds[p][i].status # 0) =>
             /\ i = Len(cmds[p])
             /\ Ended(p)
             /\ Outcome(syncRet[p]) =
                  (IF cmds[p][i].status = 1 THEN "NoOpCommit" ELSE "Failure")

\* A run has ended in a commit with nothing to commit and another in a
\* failed commit.
C7_Witness ==
    /\ \E p \in Procs : Ended(p) /\ EndedWith(p) = GitError("commit", 1)
    /\ \E p \in Procs : Ended(p) /\ EndedWith(p) = GitError("commit", 2)

\* Caller p's run made a push that exited with success.
PushOK(p) == \E i \in 1..Len(cmds[p]) : cmds[p][i] = GitError("push", 0)

\* C8: a run starts the registered hook once when its push exits with
\* success and never otherwise, and the hook it starts is the one registered
\* last.
C8_HookOncePerPush ==
    \A p \in Procs :
      /\ Len(hookCalls[p]) = (IF PushOK(p) /\ pushHook # NoHook THEN 1 ELSE 0)
      /\ \A i \in 1..Len(hookCalls[p]) : hookCalls[p][i].hook = hookCalls[p][i].last

\* A run has started the hook registered by a second RegisterPushHook call,
\* and another run has ended in a failed push with a hook registered.
C8_Witness ==
    /\ \E p \in Procs : /\ hookCalls[p] # <<>>
                        /\ hookCalls[p][1].hook = OtherHook
    /\ \E p \in Procs : /\ Ended(p)
                        /\ EndedWith(p) = GitError("push", 2)
                        /\ pushHook # NoHook

\* C9: every run whose push exits with success, the start-up run included,
\* starts the hook that sends the "Updated\n" signal.
C9_SignalAfterEveryPush == \A p \in Procs : PushOK(p) => Len(hookCalls[p]) = 1

\* The event loop takes a peer signal in this step.
TakesSignal == pc[Main] = "select" /\ incoming' = incoming - 1

\* C10: a peer signal waiting at the select can be taken whatever lastEvent
\* and isSyncPending are, and taking it calls Sync() at once and changes
\* neither.
C10_PeerBypassesDebounce ==
    /\ []((pc[Main] = "select" /\ incoming > 0) => ENABLED RecvIncoming)
    /\ [][TakesSignal =>
            /\ pc'[Main] = "Sync"
            /\ UNCHANGED <<sinceLastEvent, isSyncPending>>
            /\ \A t \in Tasks : pc'[t] = pc[t]]_vars

\* The event loop has called Sync() for a peer signal right after a local
\* event was recorded, with a debounce goroutine pending.
C10_Witness ==
    /\ pc[Main] = "Sync"
    /\ running
    /\ sinceLastEvent = 0
    /\ isSyncPending
    /\ unsynced

\* The start-up run ended in a pipeline failure: a command exited with a
\* nonzero status that is not the commit step's "nothing to commit".
StartupFailed ==
    /\ syncRet[Main] # NoError
    /\ syncRet[Main] # GitError("commit", 1)

\* C13: when the start-up Sync() has returned, a warning was sent exactly if
\* the run ended in a pipeline failure, and the daemon goes on to its
\* listeners and its event loop either way.
C13_WarnOnStartupFailure ==
    pc[Main] = "listen" => /\ warned = StartupFailed
                           /\ ENABLED Listen

\* The event loop takes the watch event at the head of the channel in this
\* step.
TakesEvent == pc[Main] = "select" /\ watchQ # <<>> /\ watchQ' = Tail(watchQ)

\* C12: handling an event whose path lies in the .git directory, or any
\* event while isSyncActive is true, leaves lastEvent and isSyncPending
\* unchanged and starts no debounce goroutine.
C12_FilteredEventNoEffect ==
    [][(TakesEvent /\ (isGit(Head(watchQ).name) \/ isSyncActive)) =>
          /\ UNCHANGED <<sinceLastEvent, isSyncPending>>
          /\ \A t \in Tasks : pc'[t] = pc[t]]_vars

\* The event loop is about to handle an event of a file outside .git while a
\* debounce goroutine's Sync() is active, with a goroutine slot free.
C12_Witness ==
    /\ pc[Main] = "select"
    /\ watchQ # <<>>
    /\ ~isGit(Head(watchQ).name)
    /\ isSyncActive
    /\ \E t \in Tasks : pc[t] \in SyncPcs
    /\ \E t \in Tasks : pc[t] = "none"

\* Caller p's git push ends in this step.
PushEnds(p) == pc[p] = "push" /\ pc'[p] # "push"

\* C18: the step in which git push ends is the step in which Sync() returns:
\* it clears isSyncActive and returns what git push exited with, whether or
\* not it started a hook and whatever becomes of that hook afterwards; and a
\* call of Sync() can always begin, however many hooks have not run.
C18_HookIsDetached ==
    /\ [][\A p \in Procs : PushEnds(p) =>
            /\ pc'[p] = AfterSync(p)
            /\ ~isSyncActive'
            /\ syncRet'[p] =
                 (IF cmds'[p][Len(cmds'[p])].status = 0
                  THEN NoError ELSE cmds'[p][Len(cmds'[p])])]_vars
    /\ [](\A p \in Procs : pc[p] = "Sync" => ENABLED SyncStart(p))

\* The event loop's run has returned success and the hook it started has not
\* run; an event was recorded since, and its debounce goroutine is about to
\* begin the next run.
C18_Witness ==
    /\ pc[Main] = "select"
    /\ hookCalls[Main] # <<>>
    /\ syncRet[Main] = NoError
    /\ hooks[NotifyHook] > 0
    /\ ~isSyncActive
    /\ unsynced
    /\ \E t \in Tasks : pc[t] = "Sync"

\* The initial walk is over and a directory that ShouldWatch() accepts has
\* no watch.
WalkFailed ==
    /\ pc[Main] # "addWatches"
    /\ \E d \in InitialDirs : ShouldWatch(d) /\ d \notin watches

\* C14: when the registration of a watch has failed during the initial walk
\* the process has terminated: it neither runs the start-up sync nor enters
\* the event loop.
C14_FatalOnWatchFailure == WalkFailed => pc[Main] = "exited"

\* The item of a category: its label, ": ", and the file name of its one
\* entry or the number of its entries.
Item(label, names) ==
    label \o <<":", " ">> \o
      (IF Len(names) = 1 THEN names[1] ELSE Itoa(Len(names)))

\* The items joined by single spaces.
RECURSIVE Join(_)
Join(items) ==
    IF items = <<>> THEN <<>>
    ELSE IF Len(items) = 1 THEN items[1]
    ELSE items[1] \o <<" ">> \o Join(Tail(items))

\* The summary: the items of the categories that are not empty, in the order
\* New, Edit, Del.
Summary(created, modified, deleted) ==
    Join((IF created # <<>> THEN <<Item(<<"N", "e", "w">>, created)>> ELSE <<>>)
      \o (IF modified # <<>> THEN <<Item(<<"E", "d", "i", "t">>, modified)>> ELSE <<>>)
      \o (IF deleted # <<>> THEN <<Item(<<"D", "e", "l">>, deleted)>> ELSE <<>>))

\* C16: the rendered summary is the items of the non-empty categories in the
\* order New, Edit, Del, joined by single spaces with no leading or trailing
\* space, and the Notifier is informed exactly if a category is not empty.
C16_StatusSummary ==
    ds.shown =>
      /\ ds.msg = Summary(ds.created, ds.modified, ds.deleted)
      /\ ds.informed = (ds.created # <<>> \/ ds.modified # <<>> \/ ds.deleted # <<>>)

\* C11: the events of the pipeline's own writes cause no further pipeline
\* run, whichever goroutine ran the pipeline: when nothing but the pipeline
\* writes into the tree, no debounce goroutine ever runs the pipeline.
C11_OwnWritesCauseNoRun == \A t \in Tasks : pc[t] \notin SyncPcs

\* C17: handling a watch event registers a watch on the event's path exactly
\* if the event is the creation of a directory that ShouldWatch() accepts,
\* and calls Changed() with the path whatever the event is.
C17_WatchOnDirCreate ==
    [][TakesEvent =>
         LET ev == Head(watchQ) IN
         /\ watches' = IF ev.isCreate /\ ev.isDir /\ ShouldWatch(ev.name)
                       THEN watches \cup {ev.name} ELSE watches
         /\ Changed(ev.name)]_vars

\* The creation of a directory outside .git has been handled: the directory
\* has its watch, and Changed() has recorded the event and started a
\* debounce goroutine.
C17_Witness ==
    /\ PathFile \in watches
    /\ sinceLastEvent = 0
    /\ unsynced
    /\ \E t \in Tasks : pc[t] = "lock"

\* The event loop's goroutine takes a step of a Sync() it has called for a
\* peer signal.
PeerSyncStep ==
    /\ running
    /\ pc[Main] \in {"Sync"} \cup SyncPcs
    /\ pc'[Main] # pc[Main]

\* C19: no step of a peer-triggered Sync() changes isSyncPending, lastEvent
\* or a debounce goroutine; the pending goroutine begins its one run when the
\* idle window has passed, and that run is never left out: after one recorded
\* event and the peer's signal, the peer-triggered run and the debounced run
\* both take place.
C19_PeerRunKeepsDebounce ==
    /\ [][PeerSyncStep =>
            /\ UNCHANGED <<isSyncPending, sinceLastEvent>>
            /\ \A t \in Tasks : pc'[t] = pc[t]]_vars
    /\ [][DebouncedRunBegins =>
            burstOpen /\ sinceLastEvent >= SYNC_IDLE_SECS]_vars
    /\ [](Quiescent => ~burstOpen)

\* A Sync() that is not a debounced one began and returned after the event
\* was recorded, on the event loop's goroutine, and the debounce goroutine of
\* the event, still pending, is about to begin its own run.
C19_Witness ==
    /\ pc[Main] = "select"
    /\ cmds[Main] # <<>>
    /\ nSignals - incoming = 1
    /\ burstOpen
    /\ ~unsynced
    /\ isSyncPending
    /\ \E t \in Tasks : pc[t] = "Sync"

\* Caller p's run is the latest that began.
Latest(p) == pc[p] \in SyncPcs \/ cmds[p] # <<>>

\* Caller p's run has made no push and started no hook.
NoPush(p) ==
    /\ \A i \in 1..Len(cmds[p]) : cmds[p][i].cmd # "push"
    /\ hookCalls[p] = <<>>

RunsAt(d) == peers'.runs = peers.runs + 1 /\ peers'.by = d

\* C20: with no local change after one daemon's push, the daemons make
\* finitely many runs, and a run with nothing to commit does not return
\* success and sends no signal to any peer. Every daemon makes at most one
\* push of its own, each push signals the other daemons once, and each
\* signal's run can be followed by one debounced run for the files its merge
\* wrote: at most 2 * NPeers * (NPeers - 1) runs in total.
C20_FinitelyManyRuns ==
    /\ [](peers.runs <= 2 * NPeers * (NPeers - 1))
    /\ [][\A d \in Peers : (RunsAt(d) /\ ~peers.at[d].dirty) =>
            /\ peers'.last # NoError
            /\ \A e \in Peers \ {d} : peers'.at[e] = peers.at[e]]_vars

\* A daemon has answered the signal with a push of its own, the latest run
\* found nothing to commit, and no signal or debounce goroutine is left.
C20_Witness ==
    /\ \E d, e \in Peers : d # e /\ peers.at[d].pushed /\ peers.at[e].pushed
    /\ peers.last = GitError("commit", 1)
    /\ \A d \in Peers : peers.at[d].inbox = 0 /\ ~peers.at[d].pending

=============================================================================
